---- MODULE Spec2Model ----
(***************************************************************************)
(* Model of the Rust binding layer of draconis++ (bindings/rust/src):      *)
(* the CacheManager and Plugin wrappers of types.rs and lib.rs, together    *)
(* with the native library (DracXxx) they forward to.  The native library   *)
(* is not part of the binding sources; the sections headed "native library" *)
(* follow its written specification.                                        *)
(***************************************************************************)
EXTENDS Integers, Sequences, FiniteSets, TLC

\* ------------------------------------------------------------------ bounds
\* number of native cache-manager handles that can be live at once
MaxCaches == 1
\* get_<metric> calls recorded per (CacheManager, metric kind)
MaxGets == 3
\* distinct readings a platform collector can produce
MaxVal == 2
\* longest string handed to the API (bytes)
MaxStrLen == 2
\* number of native plugin handles that can be live at once
MaxPlugins == 1
\* distinct data snapshots / diagnostics a plugin can produce
MaxData == 1

\* ------------------------------------------------- types.rs: error codes
DRAC_SUCCESS == 255
DRAC_ERROR_API_UNAVAILABLE == 0
DRAC_ERROR_CONFIGURATION_ERROR == 1
DRAC_ERROR_CORRUPTED_DATA == 2
DRAC_ERROR_INTERNAL_ERROR == 3
DRAC_ERROR_INVALID_ARGUMENT == 4
DRAC_ERROR_IO_ERROR == 5
DRAC_ERROR_NETWORK_ERROR == 6
DRAC_ERROR_NOT_FOUND == 7
DRAC_ERROR_NOT_SUPPORTED == 8
DRAC_ERROR_OTHER == 9
DRAC_ERROR_OUT_OF_MEMORY == 10
DRAC_ERROR_PARSE_ERROR == 11
DRAC_ERROR_PERMISSION_DENIED == 12
DRAC_ERROR_PERMISSION_REQUIRED == 13
DRAC_ERROR_PLATFORM_SPECIFIC == 14
DRAC_ERROR_RESOURCE_EXHAUSTED == 15
DRAC_ERROR_TIMEOUT == 16
DRAC_ERROR_UNAVAILABLE_FEATURE == 17

\* enum ErrorCode, in declaration order (discriminants 0..18)
ErrorCode ==
  << "ApiUnavailable", "ConfigurationError", "CorruptedData", "InternalError",
     "InvalidArgument", "IoError", "NetworkError", "NotFound", "NotSupported",
     "Other", "OutOfMemory", "ParseError", "PermissionDenied",
     "PermissionRequired", "PlatformSpecific", "ResourceExhausted", "Timeout",
     "UnavailableFeature", "Success" >>

\* a decoder that takes zero for the success code
ErrorCode_from_zero_success(code) ==
  IF code = 0 THEN "Success"
  ELSE IF code = DRAC_SUCCESS THEN "ApiUnavailable"
  ELSE IF code \in 1..17 THEN ErrorCode[code + 1]
  ELSE "Other"

\* impl From<DracErrorCode> for ErrorCode
ErrorCode_from(code) ==
  CASE code = DRAC_ERROR_API_UNAVAILABLE -> "ApiUnavailable"
    [] code = DRAC_ERROR_CONFIGURATION_ERROR -> "ConfigurationError"
    [] code = DRAC_ERROR_CORRUPTED_DATA -> "CorruptedData"
    [] code = DRAC_ERROR_INTERNAL_ERROR -> "InternalError"
    [] code = DRAC_ERROR_INVALID_ARGUMENT -> "InvalidArgument"
    [] code = DRAC_ERROR_IO_ERROR -> "IoError"
    [] code = DRAC_ERROR_NETWORK_ERROR -> "NetworkError"
    [] code = DRAC_ERROR_NOT_FOUND -> "NotFound"
    [] code = DRAC_ERROR_NOT_SUPPORTED -> "NotSupported"
    [] code = DRAC_ERROR_OTHER -> "Other"
    [] code = DRAC_ERROR_OUT_OF_MEMORY -> "OutOfMemory"
    [] code = DRAC_ERROR_PARSE_ERROR -> "ParseError"
    [] code = DRAC_ERROR_PERMISSION_DENIED -> "PermissionDenied"
    [] code = DRAC_ERROR_PERMISSION_REQUIRED -> "PermissionRequired"
    [] code = DRAC_ERROR_PLATFORM_SPECIFIC -> "PlatformSpecific"
    [] code = DRAC_ERROR_RESOURCE_EXHAUSTED -> "ResourceExhausted"
    [] code = DRAC_ERROR_TIMEOUT -> "Timeout"
    [] code = DRAC_ERROR_UNAVAILABLE_FEATURE -> "UnavailableFeature"
    [] code = DRAC_SUCCESS -> "Success"
    [] OTHER -> "Other"

\* ---------------------------------------------- types.rs: battery status
DRAC_BATTERY_UNKNOWN == 0
DRAC_BATTERY_CHARGING == 1
DRAC_BATTERY_DISCHARGING == 2
DRAC_BATTERY_FULL == 3
DRAC_BATTERY_NOT_PRESENT == 4

\* impl From<DracBatteryStatus> for BatteryStatus
BatteryStatus_from(status) ==
  CASE status = DRAC_BATTERY_UNKNOWN -> "Unknown"
    [] status = DRAC_BATTERY_CHARGING -> "Charging"
    [] status = DRAC_BATTERY_DISCHARGING -> "Discharging"
    [] status = DRAC_BATTERY_FULL -> "Full"
    [] status = DRAC_BATTERY_NOT_PRESENT -> "NotPresent"
    [] OTHER -> "Unknown"

\* Option<T>: None is the empty set, Some(x) the singleton
None == {}
Some(x) == {x}

\* --------------------------------------------------------------- state
VARIABLES
  caches,          \* native cache managers: id -> [live, store]
  collectorLog,    \* per (cache id, kind): outcomes of the collector invocations
  getLog,          \* per (cache id, kind): tags returned by get_<metric>
  aborted,         \* TRUE once an operation has panicked
  ret,             \* what the last API operation returned
  nativeCalls,     \* the native functions the last API operation called, in order
  lastArg,         \* the &str handed to the last API operation (empty if none)
  rawCode,         \* a DracErrorCode handed over by the native side
  platformBattery, \* what the platform's battery collector reports
  staticPlugins,   \* names of the plugins linked into this build
  staticRegistry,  \* native: the registered static plugin factories
  initCalls,       \* init_static_plugins calls made so far (counted up to 2)
  searchPaths,     \* native: the plugin search paths added so far
  plugins,         \* native plugin handles: id -> plugin state
  pluginFields,    \* the field list a plugin publishes for collected data
  pluginDiags,     \* the diagnostics a plugin module can report (numbered from 1)
  diagSet,         \* per plugin: the diagnostic the latest failing call set (0: none)
  handleLog,       \* per handle: "free", "held" by a Rust value, or how a drop left it
  handedOver       \* heap results the native side handed to the last API operation

cacheVars == << caches, collectorLog, getLog >>
inputVars ==
  << rawCode, platformBattery, staticPlugins, pluginFields, pluginDiags >>
ghostVars == << diagSet, handleLog >>
registryVars == << staticRegistry, initCalls >>
pluginVars == << staticRegistry, initCalls, searchPaths, plugins >>

vars ==
  << caches, collectorLog, getLog, aborted, ret, nativeCalls, lastArg, rawCode,
     platformBattery, staticPlugins, staticRegistry, initCalls, searchPaths,
     plugins, pluginFields, pluginDiags, diagSet, handleLog, handedOver >>

CacheIds == 1..MaxCaches
NULL == 0

\* metric kinds with a cache slot
Kinds == {"mem_info", "cpu_cores", "battery_info", "cpu_model", "kernel_version"}

\* failure codes a platform collector reports in this model
CollectorErrors == {DRAC_ERROR_API_UNAVAILABLE, DRAC_ERROR_NOT_SUPPORTED}

EmptyStore == [k \in Kinds |-> {}]
NoCache == [live |-> FALSE, store |-> EmptyStore]
NoLog == [k \in Kinds |-> << >>]
NoRet == [op |-> "none", h |-> NULL, tag |-> "none", val |-> NULL]
\* the sys::DracBattery that get_battery_info hands to the native call
NoBattery ==
  [status |-> DRAC_BATTERY_UNKNOWN, percentage |-> 255, timeRemainingSecs |-> -1]

Ok(op, h, v) == [op |-> op, h |-> h, tag |-> "Ok", val |-> v]
Err(op, h, e) == [op |-> op, h |-> h, tag |-> "Err", val |-> e]

PluginIds == 1..MaxPlugins

\* no Rust value owns a handle
NoHandles ==
  [cache |-> [id \in CacheIds |-> "free"], plugin |-> [p \in PluginIds |-> "free"]]

\* a native field list without entries: null items, count 0
NoFields == [items |-> None, count |-> 0]

\* a plugin handle that is not loaded
NoPlugin ==
  [live |-> FALSE, state |-> "Unloaded", config |-> "none", effective |-> "none",
   enabled |-> FALSE, ready |-> FALSE, data |-> 0, lastError |-> 0]

\* ----------------------------------------- native library: cache manager
\* DracCreateCacheManager: a fresh, empty cache under a free handle
DracCreateCacheManager(id) == [live |-> TRUE, store |-> EmptyStore]

\* DracDestroyCacheManager: releases the cache and all values it produced
DracDestroyCacheManager(c) == NoCache

\* DracGet<Metric>(handle, &out): the stored value when the kind is populated,
\* otherwise the collector's outcome o, stored on success only
DracGetMetric(c, k, o, init) ==
  IF c.store[k] # {}
  THEN [result |-> DRAC_SUCCESS, out |-> CHOOSE v \in c.store[k] : TRUE,
        invoked |-> FALSE, cache |-> c]
  ELSE IF o.ok
  THEN [result |-> DRAC_SUCCESS, out |-> o.val, invoked |-> TRUE,
        cache |-> [c EXCEPT !.store[k] = {o.val}]]
  ELSE [result |-> o.code, out |-> init, invoked |-> TRUE, cache |-> c]

\* outcomes of one collector invocation for readings drawn from vals
CollectorOutcomes(vals) ==
  [ok : {TRUE}, val : vals, code : {DRAC_SUCCESS}]
    \cup [ok : {FALSE}, val : {NULL}, code : CollectorErrors]

\* ------------------------------------------------ types.rs: CacheManager
Unit(op, h) == [op |-> op, h |-> h, tag |-> "Unit", val |-> NULL]
Panic(op) == [op |-> op, h |-> NULL, tag |-> "Panic", val |-> NULL]

\* get_<metric> calls made so far on the CacheManager with handle id
Gets(id) ==
  Len(getLog[id]["mem_info"]) + Len(getLog[id]["cpu_cores"])
    + Len(getLog[id]["battery_info"]) + Len(getLog[id]["cpu_model"])
    + Len(getLog[id]["kernel_version"])

\* CacheManager::new: the native handle, asserted non-null
CacheManager_new ==
  /\ ~aborted
  /\ \E handle \in {NULL} \cup {id \in CacheIds : ~caches[id].live} :
       IF handle = NULL
       THEN /\ aborted' = TRUE
            /\ ret' = Panic("CacheManager_new")
            /\ UNCHANGED << cacheVars, handleLog >>
       ELSE /\ caches' = [caches EXCEPT ![handle] = DracCreateCacheManager(handle)]
            /\ collectorLog' = [collectorLog EXCEPT ![handle] = NoLog]
            /\ getLog' = [getLog EXCEPT ![handle] = NoLog]
            /\ ret' = Ok("CacheManager_new", handle, NULL)
            /\ handleLog' = [handleLog EXCEPT !.cache[handle] = "held"]
            /\ UNCHANGED aborted
  /\ nativeCalls' = << "DracCreateCacheManager" >>
  /\ lastArg' = << >>
  /\ handedOver' = << >>
  /\ UNCHANGED << inputVars, diagSet, pluginVars >>

\* how a drop that made n release calls leaves the handle its value owned
Dropped(n) ==
  CASE n = 0 -> "leaked"
    [] n = 1 -> "free"
    [] OTHER -> "released twice"

\* the native calls of impl Drop for CacheManager
CacheManager_drop_calls(id) == << "DracDestroyCacheManager" >>

\* impl Drop for CacheManager: runs when the value owning the handle goes away
CacheManager_drop(id) ==
  /\ ~aborted
  /\ caches[id].live
  /\ handleLog.cache[id] = "held"
  /\ LET calls == CacheManager_drop_calls(id)
     IN  /\ caches' = IF calls = << >>
                      THEN caches
                      ELSE [caches EXCEPT ![id] = DracDestroyCacheManager(caches[id])]
         /\ nativeCalls' = calls
         /\ handleLog' = [handleLog EXCEPT !.cache[id] = Dropped(Len(calls))]
  /\ collectorLog' = [collectorLog EXCEPT ![id] = NoLog]
  /\ getLog' = [getLog EXCEPT ![id] = NoLog]
  /\ ret' = Unit("CacheManager_drop", id)
  /\ lastArg' = << >>
  /\ handedOver' = << >>
  /\ UNCHANGED << aborted, inputVars, diagSet, pluginVars >>

\* what every get_<metric> leaves behind: the native cache as the call left it,
\* the collector invocation (if any) and the returned tag recorded
GetEffect(id, k, n, r, native) ==
  /\ caches' = [caches EXCEPT ![id] = n.cache]
  /\ collectorLog' =
       IF n.invoked
       THEN [collectorLog EXCEPT ![id][k] =
               Append(@, IF n.result = DRAC_SUCCESS THEN "ok" ELSE "fail")]
       ELSE collectorLog
  /\ getLog' = [getLog EXCEPT ![id][k] = Append(@, r.tag)]
  /\ ret' = r
  /\ nativeCalls' = << native >>
  /\ lastArg' = << >>
  /\ handedOver' = << >>
  /\ UNCHANGED << aborted, inputVars, ghostVars, pluginVars >>

\* readings of the memory and cpu collectors
MemReadings == [usedBytes : 1..MaxVal, totalBytes : {MaxVal + 1}]
CpuReadings == [physical : 1..MaxVal, logical : {2 * MaxVal}]

\* a get_mem_info that exchanges the two fields
get_mem_info_swapped(id, result, usage) ==
  IF result = DRAC_SUCCESS
  THEN Ok("get_mem_info", id,
          [used_bytes |-> usage.totalBytes, total_bytes |-> usage.usedBytes])
  ELSE Err("get_mem_info", id, ErrorCode_from(result))

\* get_mem_info: the value it returns for the native result and out struct
get_mem_info_ret(id, result, usage) ==
  IF result = DRAC_SUCCESS
  THEN Ok("get_mem_info", id,
          [used_bytes |-> usage.usedBytes, total_bytes |-> usage.totalBytes])
  ELSE Err("get_mem_info", id, ErrorCode_from(result))

get_mem_info(id) ==
  /\ ~aborted
  /\ caches[id].live
  /\ Gets(id) < MaxGets
  /\ \E o \in CollectorOutcomes(MemReadings) :
       LET n == DracGetMetric(caches[id], "mem_info", o,
                              [usedBytes |-> 0, totalBytes |-> 0])
       IN  GetEffect(id, "mem_info", n, get_mem_info_ret(id, n.result, n.out),
                     "DracGetMemInfo")

\* a get_cpu_cores that takes zero for the success code
get_cpu_cores_zero_success(id, result, cores) ==
  IF result = 0
  THEN Ok("get_cpu_cores", id,
          [physical |-> cores.physical, logical |-> cores.logical])
  ELSE Err("get_cpu_cores", id, ErrorCode_from(result))

\* get_cpu_cores: the value it returns for the native result and out struct
get_cpu_cores_ret(id, result, cores) ==
  IF result = DRAC_SUCCESS
  THEN Ok("get_cpu_cores", id,
          [physical |-> cores.physical, logical |-> cores.logical])
  ELSE Err("get_cpu_cores", id, ErrorCode_from(result))

get_cpu_cores(id) ==
  /\ ~aborted
  /\ caches[id].live
  /\ Gets(id) < MaxGets
  /\ \E o \in CollectorOutcomes(CpuReadings) :
       LET n == DracGetMetric(caches[id], "cpu_cores", o,
                              [physical |-> 0, logical |-> 0])
       IN  GetEffect(id, "cpu_cores", n, get_cpu_cores_ret(id, n.result, n.out),
                     "DracGetCpuCores")

\* a get_battery_info that takes zero seconds for the sentinel as well
get_battery_info_nonpositive(id, result, battery) ==
  IF result = DRAC_SUCCESS
  THEN Ok("get_battery_info", id,
          [status |-> BatteryStatus_from(battery.status),
           percentage |-> IF battery.percentage = 255
                          THEN None ELSE Some(battery.percentage),
           time_remaining_secs |-> IF battery.timeRemainingSecs <= 0
                                   THEN None ELSE Some(battery.timeRemainingSecs)])
  ELSE Err("get_battery_info", id, ErrorCode_from(result))

\* get_battery_info: the value it returns for the native result and out struct
get_battery_info_ret(id, result, battery) ==
  IF result = DRAC_SUCCESS
  THEN Ok("get_battery_info", id,
          [status |-> BatteryStatus_from(battery.status),
           percentage |-> IF battery.percentage = 255
                          THEN None ELSE Some(battery.percentage),
           time_remaining_secs |-> IF battery.timeRemainingSecs < 0
                                   THEN None ELSE Some(battery.timeRemainingSecs)])
  ELSE Err("get_battery_info", id, ErrorCode_from(result))

get_battery_info(id) ==
  /\ ~aborted
  /\ caches[id].live
  /\ Gets(id) < MaxGets
  /\ \E o \in CollectorOutcomes({platformBattery}) :
       LET n == DracGetMetric(caches[id], "battery_info", o, NoBattery)
       IN  GetEffect(id, "battery_info", n,
                     get_battery_info_ret(id, n.result, n.out),
                     "DracGetBatteryInfo")

\* ErrorCode::from applied to the code the native side handed over
ErrorCode_from_call ==
  /\ ret = NoRet
  /\ ret' = Ok("ErrorCode_from", NULL, ErrorCode_from(rawCode))
  /\ nativeCalls' = << >>
  /\ lastArg' = << >>
  /\ handedOver' = << >>
  /\ UNCHANGED << cacheVars, aborted, inputVars, ghostVars, pluginVars >>

\* ------------------------------------------------------------ strings
\* bytes of a &str in this model: NUL and the letter a
Bytes == {0, 97}
Strings == UNION {[1..n -> Bytes] : n \in 0..MaxStrLen}
HasNul(s) == \E i \in 1..Len(s) : s[i] = 0

\* the bytes of s before its first NUL
UpToNul(s) ==
  IF HasNul(s)
  THEN SubSeq(s, 1, (CHOOSE i \in 1..Len(s) :
                       s[i] = 0 /\ \A j \in 1..(i - 1) : s[j] # 0) - 1)
  ELSE s

\* a conversion that cuts the string at its first NUL instead of failing
CString_new_truncating(s) == [ok |-> TRUE, c |-> UpToNul(s)]

\* std::ffi::CString::new: fails on an interior NUL byte
CString_new(s) ==
  IF HasNul(s) THEN [ok |-> FALSE, c |-> << >>] ELSE [ok |-> TRUE, c |-> s]

\* C pointers to text: the null pointer is None, a pointer to s is Some(s)
is_null(ptr) == ptr = None
CStr_from_ptr(ptr) == CHOOSE str \in ptr : TRUE

\* CStr::to_string_lossy: each byte that is not valid UTF-8 becomes U+FFFD
\* (of the multi-byte range only 0xFE and 0xFF, valid nowhere, occur here)
to_string_lossy(bytes) ==
  [i \in 1..Len(bytes) |-> IF bytes[i] < 128 THEN bytes[i] ELSE 65533]

\* ------------------------------------- types.rs: string-valued getters
\* what a text collector reads: a C string, or a null pointer for absent text
StringReadings == {None, Some(<< 97 >>)}

\* a string-valued get_<metric>: what it returns and the native calls it makes
\* for the native result and the pointer written to &mut ptr
get_string_ret(op, native, id, result, ptr) ==
  IF result = DRAC_SUCCESS /\ ~is_null(ptr)
  THEN [r |-> Ok(op, id, to_string_lossy(CStr_from_ptr(ptr))),
        native |-> << native, "DracFreeString" >>]
  ELSE [r |-> Err(op, id, ErrorCode_from(result)), native |-> << native >>]

\* a string-valued get_<metric> on the CacheManager with handle id
get_string(op, native, k, id) ==
  /\ ~aborted
  /\ caches[id].live
  /\ Gets(id) < MaxGets
  /\ \E o \in CollectorOutcomes(StringReadings) :
       LET n == DracGetMetric(caches[id], k, o, None)
           g == get_string_ret(op, native, id, n.result, n.out)
       IN  /\ caches' = [caches EXCEPT ![id] = n.cache]
           /\ collectorLog' =
                IF n.invoked
                THEN [collectorLog EXCEPT ![id][k] =
                        Append(@, IF n.result = DRAC_SUCCESS THEN "ok" ELSE "fail")]
                ELSE collectorLog
           /\ getLog' = [getLog EXCEPT ![id][k] = Append(@, g.r.tag)]
           /\ ret' = g.r
           /\ nativeCalls' = g.native
           /\ handedOver' = IF is_null(n.out) THEN << >> ELSE << "DracFreeString" >>
  /\ lastArg' = << >>
  /\ UNCHANGED << aborted, inputVars, ghostVars, pluginVars >>

\* get_cpu_model
get_cpu_model(id) == get_string("get_cpu_model", "DracGetCPUModel", "cpu_model", id)

\* get_kernel_version
get_kernel_version(id) ==
  get_string("get_kernel_version", "DracGetKernelVersion", "kernel_version", id)

\* ------------------------------------- native library: plugin loader
\* the plugin that can be linked into the build, the library each directory
\* holds and the files that are plugin libraries
StaticPluginNames == {<< 97 >>}
LibsIn(dir) == IF dir = << 97 >> THEN {<< 97, 97 >>} ELSE {}
PluginFiles == {<< 97, 97 >>}

Range(q) == {q[i] : i \in 1..Len(q)}

RECURSIVE SeqOf(_)
SeqOf(set) ==
  IF set = {} THEN << >>
  ELSE LET x == CHOOSE y \in set : TRUE IN << x >> \o SeqOf(set \ {x})

\* a registration that registers every linked-in factory on every call
DracInitStaticPlugins_again(registry, linked) == registry \o SeqOf(linked)

\* DracInitStaticPlugins: registers the linked-in factories not yet registered;
\* the registry after the call (the call returns its length)
DracInitStaticPlugins(registry, linked) ==
  registry \o SeqOf(linked \ Range(registry))

\* DracAddPluginSearchPath
DracAddPluginSearchPath(paths, path) == paths \cup {path}

\* a name resolves against the static registry or a library in a search path
Resolves(name) ==
  \/ name \in Range(staticRegistry)
  \/ \E dir \in searchPaths : name \in LibsIn(dir)

FreePluginIds == {p \in PluginIds : ~plugins[p].live}

\* a plugin right after loading
LoadedPlugin ==
  [live |-> TRUE, state |-> "Unconfigured", config |-> "none",
   effective |-> "none", enabled |-> FALSE, ready |-> FALSE, data |-> 0,
   lastError |-> 0]

\* DracLoadPlugin: the handles the call can return (NULL: not found, or no handle)
DracLoadPlugin(name) ==
  IF Resolves(name) THEN {NULL} \cup FreePluginIds ELSE {NULL}

\* DracLoadPluginFromPath
DracLoadPluginFromPath(path) ==
  IF path \in PluginFiles THEN {NULL} \cup FreePluginIds ELSE {NULL}

\* DracUnloadPlugin
DracUnloadPlugin(pl) == NoPlugin

\* descriptors of the plugins discovery sees: the registry's, then the libraries
\* of the search paths; a descriptor's version may be a null pointer
Discoverable ==
  staticRegistry \o SeqOf(UNION {LibsIn(dir) : dir \in searchPaths})

DracDiscoverPlugins ==
  IF Discoverable = << >>
  THEN {[items |-> None, count |-> 0], [items |-> Some(<< >>), count |-> 0]}
  ELSE {[items |-> Some([i \in 1..Len(Discoverable) |->
                           [name |-> Some(Discoverable[i]), version |-> v,
                            author |-> v, description |-> v]]),
         count |-> Len(Discoverable)] : v \in {None, Some(<< 97 >>)}}

\* ------------------------------------------------- lib.rs / types.rs: loader
Value(op, v) == [op |-> op, h |-> NULL, tag |-> "Value", val |-> v]

\* init_static_plugins
init_static_plugins ==
  /\ ~aborted
  /\ staticRegistry' = DracInitStaticPlugins(staticRegistry, staticPlugins)
  /\ ret' = Value("init_static_plugins", Len(staticRegistry'))
  /\ initCalls' = IF initCalls < 2 THEN initCalls + 1 ELSE initCalls
  /\ nativeCalls' = << "DracInitStaticPlugins" >>
  /\ lastArg' = << >>
  /\ handedOver' = << >>
  /\ UNCHANGED << cacheVars, aborted, inputVars, ghostVars, searchPaths, plugins >>

\* add_plugin_search_path
add_plugin_search_path(path) ==
  /\ ~aborted
  /\ LET c_path == CString_new(path)
     IN  IF c_path.ok
         THEN /\ searchPaths' = DracAddPluginSearchPath(searchPaths, c_path.c)
              /\ nativeCalls' = << "DracAddPluginSearchPath" >>
         ELSE /\ UNCHANGED searchPaths
              /\ nativeCalls' = << >>
  /\ ret' = Unit("add_plugin_search_path", NULL)
  /\ lastArg' = path
  /\ handedOver' = << >>
  /\ UNCHANGED << cacheVars, aborted, inputVars, ghostVars, registryVars, plugins >>

\* a Plugin::new without the null check
Plugin_new_unchecked(handle) == Ok("Plugin_new", handle, NULL)

\* Plugin::new: the value it returns for the handle DracLoadPlugin gave
Plugin_new_ret(handle) ==
  IF handle = NULL
  THEN Err("Plugin_new", NULL, "NotFound")
  ELSE Ok("Plugin_new", handle, NULL)

\* Plugin::from_path: the value it returns for the handle the loader gave
Plugin_from_path_ret(handle) ==
  IF handle = NULL
  THEN Err("Plugin_from_path", NULL, "NotFound")
  ELSE Ok("Plugin_from_path", handle, NULL)

\* the native side's part of a load: the returned handle becomes a loaded plugin
Loaded(handle) ==
  IF handle = NULL THEN plugins ELSE [plugins EXCEPT ![handle] = LoadedPlugin]

\* the Plugin value an Ok result carries owns its handle; an Err carries none
Owned(r) ==
  IF r.tag = "Ok" /\ r.h \in PluginIds
  THEN [handleLog EXCEPT !.plugin[r.h] = "held"]
  ELSE handleLog

\* a freshly loaded plugin has set no diagnostic
NoDiag(handle) ==
  IF handle = NULL THEN diagSet ELSE [diagSet EXCEPT ![handle] = 0]

\* Plugin::new
Plugin_new(plugin_name) ==
  /\ ~aborted
  /\ LET c_name == CString_new(plugin_name)
     IN  IF ~c_name.ok
         THEN /\ ret' = Err("Plugin_new", NULL, "InvalidArgument")
              /\ nativeCalls' = << >>
              /\ UNCHANGED << plugins, ghostVars >>
         ELSE \E handle \in DracLoadPlugin(c_name.c) :
                /\ ret' = Plugin_new_ret(handle)
                /\ nativeCalls' = << "DracLoadPlugin" >>
                /\ plugins' = Loaded(handle)
                /\ handleLog' = Owned(Plugin_new_ret(handle))
                /\ diagSet' = NoDiag(handle)
  /\ lastArg' = plugin_name
  /\ handedOver' = << >>
  /\ UNCHANGED << cacheVars, aborted, inputVars, registryVars, searchPaths >>

\* Plugin::from_path
Plugin_from_path(path) ==
  /\ ~aborted
  /\ LET c_path == CString_new(path)
     IN  IF ~c_path.ok
         THEN /\ ret' = Err("Plugin_from_path", NULL, "InvalidArgument")
              /\ nativeCalls' = << >>
              /\ UNCHANGED << plugins, ghostVars >>
         ELSE \E handle \in DracLoadPluginFromPath(c_path.c) :
                /\ ret' = Plugin_from_path_ret(handle)
                /\ nativeCalls' = << "DracLoadPluginFromPath" >>
                /\ plugins' = Loaded(handle)
                /\ handleLog' = Owned(Plugin_from_path_ret(handle))
                /\ diagSet' = NoDiag(handle)
  /\ lastArg' = path
  /\ handedOver' = << >>
  /\ UNCHANGED << cacheVars, aborted, inputVars, registryVars, searchPaths >>

\* a drop that forgets the native plugin
Plugin_drop_forgets(p) == << >>

\* the native calls of impl Drop for Plugin
Plugin_drop_calls(p) == << "DracUnloadPlugin" >>

\* impl Drop for Plugin: runs when the value owning the handle goes away
Plugin_drop(p) ==
  /\ ~aborted
  /\ plugins[p].live
  /\ handleLog.plugin[p] = "held"
  /\ LET calls == Plugin_drop_calls(p)
     IN  /\ plugins' = IF calls = << >>
                       THEN plugins
                       ELSE [plugins EXCEPT ![p] = DracUnloadPlugin(plugins[p])]
         /\ nativeCalls' = calls
         /\ handleLog' = [handleLog EXCEPT !.plugin[p] = Dropped(Len(calls))]
  /\ diagSet' = [diagSet EXCEPT ![p] = 0]
  /\ ret' = Unit("Plugin_drop", p)
  /\ lastArg' = << >>
  /\ handedOver' = << >>
  /\ UNCHANGED << cacheVars, aborted, inputVars, registryVars, searchPaths >>

\* the String of a nullable char pointer: empty for null
StringOrEmpty(ptr) == IF is_null(ptr) THEN << >> ELSE CStr_from_ptr(ptr)

\* a discover_plugins that reports an empty list as an error
discover_plugins_empty_is_error(list) ==
  IF is_null(list.items) \/ list.count = 0
  THEN [r |-> Err("discover_plugins", NULL, "NotFound"),
        native |-> << "DracDiscoverPlugins" >>]
  ELSE LET items == CStr_from_ptr(list.items)
       IN  [r |-> Ok("discover_plugins", NULL,
                     [i \in 1..list.count |->
                        [name |-> StringOrEmpty(items[i].name),
                         version |-> StringOrEmpty(items[i].version),
                         author |-> StringOrEmpty(items[i].author),
                         description |-> StringOrEmpty(items[i].description)]]),
            native |-> << "DracDiscoverPlugins", "DracFreePluginInfoList" >>]

\* discover_plugins: what it returns and the native calls it makes for the list
\* DracDiscoverPlugins gave
discover_plugins_ret(list) ==
  IF is_null(list.items) \/ list.count = 0
  THEN [r |-> Ok("discover_plugins", NULL, << >>),
        native |-> << "DracDiscoverPlugins" >>]
  ELSE LET items == CStr_from_ptr(list.items)
       IN  [r |-> Ok("discover_plugins", NULL,
                     [i \in 1..list.count |->
                        [name |-> StringOrEmpty(items[i].name),
                         version |-> StringOrEmpty(items[i].version),
                         author |-> StringOrEmpty(items[i].author),
                         description |-> StringOrEmpty(items[i].description)]]),
            native |-> << "DracDiscoverPlugins", "DracFreePluginInfoList" >>]

\* discover_plugins
discover_plugins ==
  /\ ~aborted
  /\ \E list \in DracDiscoverPlugins :
       /\ ret' = discover_plugins_ret(list).r
       /\ nativeCalls' = discover_plugins_ret(list).native
       /\ handedOver' = IF is_null(list.items)
                        THEN << >>
                        ELSE << "DracFreePluginInfoList" >>
  /\ lastArg' = << >>
  /\ UNCHANGED << cacheVars, aborted, inputVars, ghostVars, pluginVars >>

\* ------------------------------------- native library: plugin runtime
\* the configuration a text parses to: the empty document leaves the defaults,
\* a one-byte document switches the plugin off, anything longer is malformed
ParseConfig(text) ==
  CASE Len(text) = 0 -> [ok |-> TRUE, cfg |-> "default"]
    [] Len(text) = 1 -> [ok |-> TRUE, cfg |-> "off"]
    [] OTHER -> [ok |-> FALSE, cfg |-> "none"]

\* a SetConfig that reconfigures a plugin that has already initialized
DracPluginSetConfig_late(pl, text) ==
  LET parsed == ParseConfig(text)
  IN  IF ~parsed.ok
      THEN [result |-> DRAC_ERROR_PARSE_ERROR, plugin |-> pl]
      ELSE IF pl.state \in {"Unconfigured", "Configured"}
      THEN [result |-> DRAC_SUCCESS,
            plugin |-> [pl EXCEPT !.state = "Configured", !.config = parsed.cfg]]
      ELSE [result |-> DRAC_SUCCESS,
            plugin |-> [pl EXCEPT !.config = parsed.cfg,
                                  !.effective = parsed.cfg,
                                  !.enabled = (parsed.cfg # "off"),
                                  !.ready = (pl.ready /\ parsed.cfg # "off")]]

\* DracPluginSetConfig: malformed text is a ParseError; before Initialize the
\* parsed configuration is kept for it; after Initialize the call changes nothing
DracPluginSetConfig(pl, text) ==
  LET parsed == ParseConfig(text)
  IN  IF ~parsed.ok
      THEN [result |-> DRAC_ERROR_PARSE_ERROR, plugin |-> pl]
      ELSE IF pl.state \in {"Unconfigured", "Configured"}
      THEN [result |-> DRAC_SUCCESS,
            plugin |-> [pl EXCEPT !.state = "Configured", !.config = parsed.cfg]]
      ELSE [result |-> DRAC_SUCCESS, plugin |-> pl]

\* what the plugin's own Initialize can come to: success (ready or not yet), or a
\* failure that may leave a diagnostic (diag 0: none)
InitializeOutcomes ==
  [ok : {TRUE}, ready : BOOLEAN, code : {DRAC_SUCCESS}, diag : {0}]
    \cup [ok : {FALSE}, ready : {FALSE}, code : {DRAC_ERROR_CONFIGURATION_ERROR},
          diag : {0} \cup pluginDiags]

\* DracPluginInitialize: the configuration set so far becomes the effective one
\* and the plugin decides whether it is enabled and ready
DracPluginInitialize(pl, o) ==
  IF o.ok
  THEN [result |-> DRAC_SUCCESS,
        plugin |-> [pl EXCEPT !.state = "Initialized",
                              !.effective = pl.config,
                              !.enabled = (pl.config # "off"),
                              !.ready = (pl.config # "off" /\ o.ready)]]
  ELSE [result |-> o.code,
        plugin |-> [pl EXCEPT !.lastError = IF o.diag = 0 THEN @ ELSE o.diag]]

\* what a CollectData can come to: new data, when the plugin is initialized,
\* enabled and ready, or a failure with a diagnostic
CollectOutcomes(pl) ==
  (IF pl.state = "Initialized" /\ pl.enabled /\ pl.ready
   THEN [ok : {TRUE}, data : 1..MaxData, code : {DRAC_SUCCESS}, diag : {0}]
   ELSE {})
    \cup [ok : {FALSE}, data : {0}, code : {DRAC_ERROR_NOT_SUPPORTED},
          diag : pluginDiags]

\* DracPluginCollectData: success replaces the collected data; failure leaves it
\* and sets the last-error string
DracPluginCollectData(pl, o) ==
  IF o.ok
  THEN [result |-> DRAC_SUCCESS, plugin |-> [pl EXCEPT !.data = o.data]]
  ELSE [result |-> o.code, plugin |-> [pl EXCEPT !.lastError = o.diag]]

\* DracPluginIsEnabled / DracPluginIsReady
DracPluginIsEnabled(pl) == pl.enabled
DracPluginIsReady(pl) == pl.ready

\* ----------------------------------------------------- types.rs: Plugin
\* a Result<()> that takes the code 0 for success
UnitResult_zero_success(op, p, result) ==
  IF result = 0
  THEN Ok(op, p, NULL)
  ELSE Err(op, p, ErrorCode_from(result))

\* Result<()> of a native result code
UnitResult(op, p, result) ==
  IF result = DRAC_SUCCESS
  THEN Ok(op, p, NULL)
  ELSE Err(op, p, ErrorCode_from(result))

\* Plugin::set_config
Plugin_set_config(p, toml_config) ==
  /\ ~aborted
  /\ plugins[p].live
  /\ LET c_config == CString_new(toml_config)
     IN  IF ~c_config.ok
         THEN /\ ret' = Err("Plugin_set_config", p, "InvalidArgument")
              /\ nativeCalls' = << >>
              /\ UNCHANGED plugins
         ELSE LET n == DracPluginSetConfig(plugins[p], c_config.c)
              IN  /\ ret' = UnitResult("Plugin_set_config", p, n.result)
                  /\ nativeCalls' = << "DracPluginSetConfig" >>
                  /\ plugins' = [plugins EXCEPT ![p] = n.plugin]
  /\ lastArg' = toml_config
  /\ handedOver' = << >>
  /\ UNCHANGED << cacheVars, aborted, inputVars, ghostVars, registryVars,
                  searchPaths >>

\* Plugin::initialize
Plugin_initialize(p, cache) ==
  /\ ~aborted
  /\ plugins[p].live
  /\ caches[cache].live
  /\ \E o \in InitializeOutcomes :
       LET n == DracPluginInitialize(plugins[p], o)
       IN  /\ ret' = UnitResult("Plugin_initialize", p, n.result)
           /\ plugins' = [plugins EXCEPT ![p] = n.plugin]
           /\ diagSet' = IF o.ok \/ o.diag = 0
                         THEN diagSet
                         ELSE [diagSet EXCEPT ![p] = o.diag]
  /\ nativeCalls' = << "DracPluginInitialize" >>
  /\ lastArg' = << >>
  /\ handedOver' = << >>
  /\ UNCHANGED << cacheVars, aborted, inputVars, handleLog, registryVars,
                  searchPaths >>

\* Plugin::collect_data
Plugin_collect_data(p, cache) ==
  /\ ~aborted
  /\ plugins[p].live
  /\ caches[cache].live
  /\ \E o \in CollectOutcomes(plugins[p]) :
       LET n == DracPluginCollectData(plugins[p], o)
       IN  /\ ret' = UnitResult("Plugin_collect_data", p, n.result)
           /\ plugins' = [plugins EXCEPT ![p] = n.plugin]
           /\ diagSet' = IF o.ok \/ o.diag = 0
                         THEN diagSet
                         ELSE [diagSet EXCEPT ![p] = o.diag]
  /\ nativeCalls' = << "DracPluginCollectData" >>
  /\ lastArg' = << >>
  /\ handedOver' = << >>
  /\ UNCHANGED << cacheVars, aborted, inputVars, handleLog, registryVars,
                  searchPaths >>

\* Plugin::is_enabled
Plugin_is_enabled(p) ==
  /\ ~aborted
  /\ plugins[p].live
  /\ ret' = [op |-> "Plugin_is_enabled", h |-> p, tag |-> "Value",
             val |-> DracPluginIsEnabled(plugins[p])]
  /\ nativeCalls' = << "DracPluginIsEnabled" >>
  /\ lastArg' = << >>
  /\ handedOver' = << >>
  /\ UNCHANGED << cacheVars, aborted, inputVars, ghostVars, pluginVars >>

\* Plugin::is_ready
Plugin_is_ready(p) ==
  /\ ~aborted
  /\ plugins[p].live
  /\ ret' = [op |-> "Plugin_is_ready", h |-> p, tag |-> "Value",
             val |-> DracPluginIsReady(plugins[p])]
  /\ nativeCalls' = << "DracPluginIsReady" >>
  /\ lastArg' = << >>
  /\ handedOver' = << >>
  /\ UNCHANGED << cacheVars, aborted, inputVars, ghostVars, pluginVars >>

\* ------------------------------ native library: what a plugin publishes
\* the JSON text and the diagnostic text with number d
JsonOf(d) == << 123 >> \o [i \in 1..d |-> 97] \o << 125 >>
DiagText(d) == [i \in 1..d |-> 97]

\* DracPluginGetJson: a fresh copy of the collected data's JSON, null before the
\* first successful collection
DracPluginGetJson(pl) == IF pl.data = 0 THEN None ELSE Some(JsonOf(pl.data))

\* DracPluginGetFields: the lists the call can hand over; an empty one before the
\* first successful collection
DracPluginGetFields(pl) ==
  IF pl.data = 0
  THEN {NoFields, [items |-> Some(<< >>), count |-> 0]}
  ELSE {pluginFields}

\* DracPluginGetLastError: a fresh copy of the last-error string, null when no
\* diagnostic was set
DracPluginGetLastError(pl) ==
  IF pl.lastError = 0 THEN None ELSE Some(DiagText(pl.lastError))

\* ------------------------------------------- types.rs: Plugin, queries
\* a get_json that reads no data as the empty text
get_json_null_is_empty(p, ptr) ==
  IF is_null(ptr)
  THEN [r |-> Ok("Plugin_get_json", p, << >>), native |-> << "DracPluginGetJson" >>]
  ELSE [r |-> Ok("Plugin_get_json", p, to_string_lossy(CStr_from_ptr(ptr))),
        native |-> << "DracPluginGetJson", "DracFreeString" >>]

\* Plugin::get_json: what it returns and the native calls it makes for the
\* pointer DracPluginGetJson gave
get_json_ret(p, ptr) ==
  IF is_null(ptr)
  THEN [r |-> Err("Plugin_get_json", p, "NotFound"),
        native |-> << "DracPluginGetJson" >>]
  ELSE [r |-> Ok("Plugin_get_json", p, to_string_lossy(CStr_from_ptr(ptr))),
        native |-> << "DracPluginGetJson", "DracFreeString" >>]

\* Plugin::get_json
Plugin_get_json(p) ==
  /\ ~aborted
  /\ plugins[p].live
  /\ LET ptr == DracPluginGetJson(plugins[p])
     IN  /\ ret' = get_json_ret(p, ptr).r
         /\ nativeCalls' = get_json_ret(p, ptr).native
         /\ handedOver' = IF is_null(ptr) THEN << >> ELSE << "DracFreeString" >>
  /\ lastArg' = << >>
  /\ UNCHANGED << cacheVars, aborted, inputVars, ghostVars, pluginVars >>

\* HashMap::insert: the value under an equal key is replaced
HashMap_insert(map, key, value) ==
  [k \in (DOMAIN map) \cup {key} |-> IF k = key THEN value ELSE map[k]]

\* a loop body that files a null key under the empty string
get_fields_step_null_key(result, field) ==
  HashMap_insert(result,
                 IF is_null(field.key)
                 THEN << >>
                 ELSE to_string_lossy(CStr_from_ptr(field.key)),
                 IF is_null(field.value)
                 THEN << >>
                 ELSE to_string_lossy(CStr_from_ptr(field.value)))

\* one round of the loop of get_fields: a null key is skipped, a null value is
\* the empty String
get_fields_step(result, field) ==
  IF is_null(field.key)
  THEN result
  ELSE HashMap_insert(result,
                      to_string_lossy(CStr_from_ptr(field.key)),
                      IF is_null(field.value)
                      THEN << >>
                      ELSE to_string_lossy(CStr_from_ptr(field.value)))

\* the loop of get_fields from entry i on
RECURSIVE get_fields_loop(_, _, _, _)
get_fields_loop(items, i, count, result) ==
  IF i > count
  THEN result
  ELSE get_fields_loop(items, i + 1, count, get_fields_step(result, items[i]))

\* Plugin::get_fields: what it returns and the native calls it makes for the
\* list DracPluginGetFields gave
get_fields_ret(p, fields) ==
  IF is_null(fields.items) \/ fields.count = 0
  THEN [r |-> Ok("Plugin_get_fields", p, << >>),
        native |-> << "DracPluginGetFields" >>]
  ELSE [r |-> Ok("Plugin_get_fields", p,
                 get_fields_loop(CStr_from_ptr(fields.items), 1, fields.count,
                                 << >>)),
        native |-> << "DracPluginGetFields", "DracFreePluginFieldList" >>]

\* Plugin::get_fields
Plugin_get_fields(p) ==
  /\ ~aborted
  /\ plugins[p].live
  /\ \E fields \in DracPluginGetFields(plugins[p]) :
       /\ ret' = get_fields_ret(p, fields).r
       /\ nativeCalls' = get_fields_ret(p, fields).native
       /\ handedOver' = IF is_null(fields.items)
                        THEN << >>
                        ELSE << "DracFreePluginFieldList" >>
  /\ lastArg' = << >>
  /\ UNCHANGED << cacheVars, aborted, inputVars, ghostVars, pluginVars >>

\* a get_last_error that reads no diagnostic as the empty text
get_last_error_null_is_empty(p, ptr) ==
  IF is_null(ptr)
  THEN [r |-> [op |-> "Plugin_get_last_error", h |-> p, tag |-> "Value",
               val |-> Some(<< >>)],
        native |-> << "DracPluginGetLastError" >>]
  ELSE [r |-> [op |-> "Plugin_get_last_error", h |-> p, tag |-> "Value",
               val |-> Some(to_string_lossy(CStr_from_ptr(ptr)))],
        native |-> << "DracPluginGetLastError", "DracFreeString" >>]

\* Plugin::get_last_error: what it returns and the native calls it makes for the
\* pointer DracPluginGetLastError gave
get_last_error_ret(p, ptr) ==
  IF is_null(ptr)
  THEN [r |-> [op |-> "Plugin_get_last_error", h |-> p, tag |-> "Value",
               val |-> None],
        native |-> << "DracPluginGetLastError" >>]
  ELSE [r |-> [op |-> "Plugin_get_last_error", h |-> p, tag |-> "Value",
               val |-> Some(to_string_lossy(CStr_from_ptr(ptr)))],
        native |-> << "DracPluginGetLastError", "DracFreeString" >>]

\* Plugin::get_last_error
Plugin_get_last_error(p) ==
  /\ ~aborted
  /\ plugins[p].live
  /\ LET ptr == DracPluginGetLastError(plugins[p])
     IN  /\ ret' = get_last_error_ret(p, ptr).r
         /\ nativeCalls' = get_last_error_ret(p, ptr).native
         /\ handedOver' = IF is_null(ptr) THEN << >> ELSE << "DracFreeString" >>
  /\ lastArg' = << >>
  /\ UNCHANGED << cacheVars, aborted, inputVars, ghostVars, pluginVars >>

\* ------------------------------------------------------ specification
\* nothing created, loaded or registered yet
InitIdle ==
  /\ collectorLog = [id \in CacheIds |-> NoLog]
  /\ getLog = [id \in CacheIds |-> NoLog]
  /\ aborted = FALSE
  /\ nativeCalls = << >>
  /\ lastArg = << >>
  /\ staticRegistry = << >>
  /\ initCalls = 0
  /\ searchPaths = {}
  /\ plugins = [p \in PluginIds |-> NoPlugin]
  /\ pluginFields = NoFields
  /\ pluginDiags = {1}
  /\ diagSet = [p \in PluginIds |-> 0]
  /\ handedOver = << >>

Init ==
  /\ InitIdle
  /\ caches = [id \in CacheIds |-> NoCache]
  /\ handleLog = NoHandles
  /\ ret = NoRet
  /\ rawCode = DRAC_SUCCESS
  /\ platformBattery = NoBattery
  /\ staticPlugins = {}

Next ==
  \/ CacheManager_new
  \/ \E id \in CacheIds : CacheManager_drop(id)
  \/ \E id \in CacheIds : get_mem_info(id)
  \/ \E id \in CacheIds : get_cpu_cores(id)

Spec == Init /\ [][Next]_vars

\* ---- ErrorCode::from over the codes of a DracErrorCode (i32)
MaxRawCode == 300
RawCodes == (-3 .. MaxRawCode) \cup {-2147483647 - 1, 2147483647}

InitErrorCode ==
  /\ InitIdle
  /\ caches = [id \in CacheIds |-> NoCache]
  /\ handleLog = NoHandles
  /\ ret = NoRet
  /\ rawCode \in RawCodes
  /\ platformBattery = NoBattery
  /\ staticPlugins = {}

NextErrorCode == ErrorCode_from_call

SpecErrorCode == InitErrorCode /\ [][NextErrorCode]_vars

\* ---- get_battery_info over the readings of a sys::DracBattery
\* (status i32, percentage u8, timeRemainingSecs i64)
MaxSecs == 2
BatteryReadings ==
  [status : {DRAC_BATTERY_CHARGING, DRAC_BATTERY_NOT_PRESENT, 5},
   percentage : 0..255,
   timeRemainingSecs : (-MaxSecs) .. MaxSecs]

\* a CacheManager has been created and nothing asked of it yet
InitBattery ==
  /\ InitIdle
  /\ caches = [id \in CacheIds |->
                 IF id = 1 THEN DracCreateCacheManager(id) ELSE NoCache]
  /\ handleLog = [NoHandles EXCEPT !.cache[1] = "held"]
  /\ ret = Ok("CacheManager_new", 1, NULL)
  /\ rawCode = DRAC_SUCCESS
  /\ platformBattery \in BatteryReadings
  /\ staticPlugins = {}

NextBattery == \E id \in CacheIds : get_battery_info(id)

SpecBattery == InitBattery /\ [][NextBattery]_vars

\* ---- the plugin loader: static registry, search paths, load, discovery
InitLoader ==
  /\ InitIdle
  /\ caches = [id \in CacheIds |-> NoCache]
  /\ handleLog = NoHandles
  /\ ret = NoRet
  /\ rawCode = DRAC_SUCCESS
  /\ platformBattery = NoBattery
  /\ staticPlugins \in SUBSET StaticPluginNames

NextLoader ==
  \/ init_static_plugins
  \/ \E path \in Strings : add_plugin_search_path(path)
  \/ \E name \in Strings : Plugin_new(name)
  \/ \E path \in Strings : Plugin_from_path(path)
  \/ \E p \in PluginIds : Plugin_drop(p)
  \/ discover_plugins

SpecLoader == InitLoader /\ [][NextLoader]_vars

\* ---- the plugin lifecycle, in a process that has created a CacheManager and
\* called init_static_plugins with one plugin linked in
InitLifecycle ==
  /\ collectorLog = [id \in CacheIds |-> NoLog]
  /\ getLog = [id \in CacheIds |-> NoLog]
  /\ aborted = FALSE
  /\ lastArg = << >>
  /\ searchPaths = {}
  /\ plugins = [p \in PluginIds |-> NoPlugin]
  /\ caches = [id \in CacheIds |->
                 IF id = 1 THEN DracCreateCacheManager(id) ELSE NoCache]
  /\ handleLog = [NoHandles EXCEPT !.cache[1] = "held"]
  /\ rawCode = DRAC_SUCCESS
  /\ platformBattery = NoBattery
  /\ staticPlugins = StaticPluginNames
  /\ staticRegistry = DracInitStaticPlugins(<< >>, staticPlugins)
  /\ initCalls = 1
  /\ ret = Value("init_static_plugins", Len(staticRegistry))
  /\ nativeCalls = << "DracInitStaticPlugins" >>
  /\ pluginFields = NoFields
  /\ pluginDiags = {1}
  /\ diagSet = [p \in PluginIds |-> 0]
  /\ handedOver = << >>

NextLifecycle ==
  \/ \E name \in Strings : Plugin_new(name)
  \/ \E p \in PluginIds : \E text \in Strings : Plugin_set_config(p, text)
  \/ \E p \in PluginIds : \E c \in CacheIds : Plugin_initialize(p, c)
  \/ \E p \in PluginIds : \E c \in CacheIds : Plugin_collect_data(p, c)
  \/ \E p \in PluginIds : Plugin_is_enabled(p)
  \/ \E p \in PluginIds : Plugin_is_ready(p)
  \/ \E p \in PluginIds : Plugin_drop(p)

SpecLifecycle == InitLifecycle /\ [][NextLifecycle]_vars

\* ---- queries on one loaded plugin, in a process that has created a
\* CacheManager, registered the static plugins and loaded one of them
MaxDiag == 2
QueryFields ==
  [items |-> Some(<< [key |-> Some(<< 97 >>), value |-> None] >>), count |-> 1]

InitQuery ==
  /\ collectorLog = [id \in CacheIds |-> NoLog]
  /\ getLog = [id \in CacheIds |-> NoLog]
  /\ aborted = FALSE
  /\ searchPaths = {}
  /\ caches = [id \in CacheIds |->
                 IF id = 1 THEN DracCreateCacheManager(id) ELSE NoCache]
  /\ rawCode = DRAC_SUCCESS
  /\ platformBattery = NoBattery
  /\ staticPlugins = StaticPluginNames
  /\ staticRegistry = DracInitStaticPlugins(<< >>, staticPlugins)
  /\ initCalls = 1
  /\ pluginFields = QueryFields
  /\ pluginDiags = 1..MaxDiag
  /\ plugins = [p \in PluginIds |-> IF p = 1 THEN LoadedPlugin ELSE NoPlugin]
  /\ handleLog = [NoHandles EXCEPT !.cache[1] = "held", !.plugin[1] = "held"]
  /\ diagSet = [p \in PluginIds |-> 0]
  /\ ret = Plugin_new_ret(1)
  /\ nativeCalls = << "DracLoadPlugin" >>
  /\ lastArg = CHOOSE name \in StaticPluginNames : TRUE
  /\ handedOver = << >>

NextQuery ==
  \/ \E p \in PluginIds : \E text \in Strings : Plugin_set_config(p, text)
  \/ \E p \in PluginIds : \E c \in CacheIds : Plugin_initialize(p, c)
  \/ \E p \in PluginIds : \E c \in CacheIds : Plugin_collect_data(p, c)
  \/ \E p \in PluginIds : Plugin_get_json(p)
  \/ \E p \in PluginIds : Plugin_get_fields(p)
  \/ \E p \in PluginIds : Plugin_get_last_error(p)

SpecQuery == InitQuery /\ [][NextQuery]_vars

\* ---- the operations that take a &str for a C string, in a process that has
\* created a CacheManager and called init_static_plugins with one plugin linked in
NextCString ==
  \/ \E path \in Strings : add_plugin_search_path(path)
  \/ \E name \in Strings : Plugin_new(name)
  \/ \E path \in Strings : Plugin_from_path(path)
  \/ \E p \in PluginIds : \E text \in Strings : Plugin_set_config(p, text)
  \/ \E p \in PluginIds : Plugin_drop(p)

SpecCString == InitLifecycle /\ [][NextCString]_vars

\* ---- ownership of handles: CacheManager and Plugin values made and dropped
InitHandles ==
  /\ InitIdle
  /\ caches = [id \in CacheIds |-> NoCache]
  /\ handleLog = NoHandles
  /\ ret = NoRet
  /\ rawCode = DRAC_SUCCESS
  /\ platformBattery = NoBattery
  /\ staticPlugins = StaticPluginNames

NextHandles ==
  \/ init_static_plugins
  \/ CacheManager_new
  \/ \E id \in CacheIds : CacheManager_drop(id)
  \/ \E name \in Strings : Plugin_new(name)
  \/ \E path \in Strings : Plugin_from_path(path)
  \/ \E p \in PluginIds : \E c \in CacheIds : Plugin_initialize(p, c)
  \/ \E p \in PluginIds : Plugin_is_ready(p)
  \/ \E p \in PluginIds : Plugin_drop(p)

SpecHandles == InitHandles /\ [][NextHandles]_vars

\* ---- get_fields over the field lists of a plugin that has collected data
MaxFields == 3
FieldKeys == {None, Some(<< 97 >>), Some(<< 254 >>), Some(<< 255 >>)}
FieldValues == {None, Some(<< >>), Some(<< 97 >>)}
FieldLists ==
  {NoFields}
    \cup {[items |-> Some(q), count |-> Len(q)] :
            q \in UNION {[1..n -> [key : FieldKeys, value : FieldValues]] :
                           n \in 0..MaxFields}}

\* a plugin that was loaded, initialized as ready and has collected once
CollectedPlugin ==
  DracPluginCollectData(
    DracPluginInitialize(LoadedPlugin,
                         [ok |-> TRUE, ready |-> TRUE, code |-> DRAC_SUCCESS,
                          diag |-> 0]).plugin,
    [ok |-> TRUE, data |-> 1, code |-> DRAC_SUCCESS, diag |-> 0]).plugin

InitFields ==
  /\ collectorLog = [id \in CacheIds |-> NoLog]
  /\ getLog = [id \in CacheIds |-> NoLog]
  /\ aborted = FALSE
  /\ searchPaths = {}
  /\ caches = [id \in CacheIds |->
                 IF id = 1 THEN DracCreateCacheManager(id) ELSE NoCache]
  /\ rawCode = DRAC_SUCCESS
  /\ platformBattery = NoBattery
  /\ staticPlugins = StaticPluginNames
  /\ staticRegistry = DracInitStaticPlugins(<< >>, staticPlugins)
  /\ initCalls = 1
  /\ pluginFields \in FieldLists
  /\ pluginDiags = {1}
  /\ plugins = [p \in PluginIds |-> IF p = 1 THEN CollectedPlugin ELSE NoPlugin]
  /\ handleLog = [NoHandles EXCEPT !.cache[1] = "held", !.plugin[1] = "held"]
  /\ diagSet = [p \in PluginIds |-> 0]
  /\ ret = Ok("Plugin_collect_data", 1, NULL)
  /\ nativeCalls = << "DracPluginCollectData" >>
  /\ lastArg = << >>
  /\ handedOver = << >>

NextFields == \E p \in PluginIds : Plugin_get_fields(p)

SpecFields == InitFields /\ [][NextFields]_vars

\* ---- the string-valued getters on one CacheManager
InitStrings ==
  /\ InitIdle
  /\ caches = [id \in CacheIds |->
                 IF id = 1 THEN DracCreateCacheManager(id) ELSE NoCache]
  /\ handleLog = [NoHandles EXCEPT !.cache[1] = "held"]
  /\ ret = Ok("CacheManager_new", 1, NULL)
  /\ rawCode = DRAC_SUCCESS
  /\ platformBattery = NoBattery
  /\ staticPlugins = {}

NextStrings ==
  \/ \E id \in CacheIds : get_cpu_model(id)
  \/ \E id \in CacheIds : get_kernel_version(id)
  \/ \E id \in CacheIds : get_cpu_cores(id)

SpecStrings == InitStrings /\ [][NextStrings]_vars

\* =================================================================== claims
Last(q) == q[Len(q)]

\* what get_mem_info / get_cpu_cores return for a stored native value
StoredAs(k, v) ==
  IF k = "mem_info"
  THEN [used_bytes |-> v.usedBytes, total_bytes |-> v.totalBytes]
  ELSE [physical |-> v.physical, logical |-> v.logical]

KindOf(op) == IF op = "get_mem_info" THEN "mem_info" ELSE "cpu_cores"

\* C1: on one CacheManager the collector of a kind is never invoked again after
\* its first success, every Ok returned is the value stored in the cache, and
\* the first get_<metric> on a (new) CacheManager does invoke the collector.
C1_CollectorAtMostOnce ==
  /\ \A id \in CacheIds : \A k \in Kinds :
       LET cl == collectorLog[id][k]
           gl == getLog[id][k]
       IN  /\ \A i \in 1..Len(cl) : cl[i] = "ok" => i = Len(cl)
           /\ gl # << >> => cl # << >>
           /\ Len(cl) <= Len(gl)
  /\ (ret.op \in {"get_mem_info", "get_cpu_cores"} /\ ret.tag = "Ok") =>
       /\ caches[ret.h].store[KindOf(ret.op)] # {}
       /\ \A v \in caches[ret.h].store[KindOf(ret.op)] :
            ret.val = StoredAs(KindOf(ret.op), v)

\* C1 witness: a second get_mem_info answered from the cache
C1_Witness ==
  \E id \in CacheIds :
    /\ Len(getLog[id]["mem_info"]) >= 2
    /\ collectorLog[id]["mem_info"] = << "ok" >>
    /\ ret.op = "get_mem_info" /\ ret.tag = "Ok"

\* C2: a failed get_<metric> leaves the kind unpopulated, and when the collector
\* fails on its first invocation and succeeds on its second, the first two calls
\* return (Err, Ok) with the collector invoked exactly twice.
C2_FailureNotCached ==
  \A id \in CacheIds : \A k \in Kinds :
    LET cl == collectorLog[id][k]
        gl == getLog[id][k]
    IN  /\ (caches[id].store[k] = {}) <=> (cl = << >> \/ Last(cl) = "fail")
        /\ \A i \in 1..Len(cl) :
             i <= Len(gl) /\ gl[i] = (IF cl[i] = "ok" THEN "Ok" ELSE "Err")
        /\ (Len(gl) >= 2 /\ Len(cl) >= 2 /\ cl[1] = "fail" /\ cl[2] = "ok") =>
             /\ gl[1] = "Err" /\ gl[2] = "Ok"
             /\ Len(cl) = 2

\* C2 witness: get_cpu_cores failed, then succeeded
C2_Witness ==
  \E id \in CacheIds :
    /\ collectorLog[id]["cpu_cores"] = << "fail", "ok" >>
    /\ getLog[id]["cpu_cores"] = << "Err", "Ok" >>

\* C3: no operation aborts the process: every operation ends by returning.
C3_NoOperationAborts == ~aborted /\ ret.tag # "Panic"

\* C4: the success code is none of the 18 error codes; ErrorCode::from maps code
\* c in 0..17 to the c-th error kind (0 to ApiUnavailable), 255 and only 255 to
\* Success, and every other integer to Other.
C4_SuccessDisjoint ==
  /\ DRAC_SUCCESS = 255
  /\ DRAC_SUCCESS \notin 0..17
  /\ \A i \in 1..18 : \A j \in 1..18 : i # j => ErrorCode[i] # ErrorCode[j]
  /\ ret.op = "ErrorCode_from" =>
       /\ rawCode \in 0..17 => ret.val = ErrorCode[rawCode + 1]
       /\ rawCode = 0 => ret.val = "ApiUnavailable"
       /\ ret.val = "Success" <=> rawCode = 255
       /\ rawCode \notin (0..17) \cup {255} => ret.val = "Other"

\* C4 witness: code 0 has been decoded, to ApiUnavailable
C4_Witness ==
  ret.op = "ErrorCode_from" /\ rawCode = 0 /\ ret.val = "ApiUnavailable"

\* C5: a successful get_battery_info decodes percentage 255 to None and 0..254 to
\* Some(value), seconds < 0 to None and >= 0 to Some(value), each field whatever
\* the other field and the status are.
C5_BatterySentinels ==
  (ret.op = "get_battery_info" /\ ret.tag = "Ok") =>
    /\ platformBattery.percentage = 255 => ret.val.percentage = None
    /\ platformBattery.percentage \in 0..254 =>
         ret.val.percentage = Some(platformBattery.percentage)
    /\ platformBattery.timeRemainingSecs < 0 => ret.val.time_remaining_secs = None
    /\ platformBattery.timeRemainingSecs >= 0 =>
         ret.val.time_remaining_secs = Some(platformBattery.timeRemainingSecs)

\* C5 witness: a present percentage next to an absent time remaining
C5_Witness ==
  /\ ret.op = "get_battery_info" /\ ret.tag = "Ok"
  /\ platformBattery.percentage = 254 /\ platformBattery.timeRemainingSecs < 0
  /\ ret.val.percentage = Some(254) /\ ret.val.time_remaining_secs = None

\* C6: Plugin::new, Plugin::from_path and set_config handed a string with an
\* embedded NUL return Err(InvalidArgument), call no native function and leave
\* every plugin handle as it was.
C6_NulIsInvalidArgument ==
  [][(/\ ret'.op \in {"Plugin_new", "Plugin_from_path", "Plugin_set_config"}
      /\ \E i \in 1..Len(lastArg') : lastArg'[i] = 0)
       => /\ ret'.tag = "Err"
          /\ ret'.val = "InvalidArgument"
          /\ nativeCalls' = << >>
          /\ plugins' = plugins]_vars

\* C6 witness: Plugin::new refused a name with an embedded NUL
C6_Witness ==
  /\ ret.op = "Plugin_new" /\ ret.tag = "Err" /\ ret.val = "InvalidArgument"
  /\ lastArg = << 97, 0 >>
  /\ nativeCalls = << >>

\* C7: Plugin::new with a well-formed name that is neither registered nor a
\* library of a configured search path returns Err(NotFound) and loads nothing.
C7_UnknownNameNotFound ==
  [][(/\ ret'.op = "Plugin_new"
      /\ \A i \in 1..Len(lastArg') : lastArg'[i] # 0
      /\ \A i \in 1..Len(staticRegistry) : staticRegistry[i] # lastArg'
      /\ \A dir \in searchPaths : lastArg' \notin LibsIn(dir))
       => /\ ret'.tag = "Err"
          /\ ret'.val = "NotFound"
          /\ ret'.h = NULL
          /\ plugins' = plugins]_vars

\* C7 witness: NotFound with a search path added and the static registry filled
C7_Witness ==
  /\ ret.op = "Plugin_new" /\ ret.tag = "Err" /\ ret.val = "NotFound"
  /\ lastArg = << >>
  /\ searchPaths # {}
  /\ staticRegistry # << >>

\* C8: every init_static_plugins call returns the number of linked-in plugins
\* (0 when there are none), the registry never holds a factory twice, and a
\* call after the first leaves the registry as it was.
C8_InitStaticIdempotent ==
  [][ret'.op = "init_static_plugins"
       => /\ ret'.val = Cardinality(staticPlugins)
          /\ staticPlugins = {} => ret'.val = 0
          /\ \A i \in 1..Len(staticRegistry') : \A j \in 1..Len(staticRegistry') :
               i # j => staticRegistry'[i] # staticRegistry'[j]
          /\ initCalls >= 1 => staticRegistry' = staticRegistry]_vars

\* C8 witness: a repeated call with a plugin linked in
C8_Witness ==
  /\ ret.op = "init_static_plugins" /\ ret.val = 1
  /\ initCalls = 2
  /\ staticRegistry = << << 97 >> >>

\* C9: discover_plugins never returns Err, returns the empty list when no search
\* path is configured and no static plugin is linked in, and leaves the loaded
\* plugins as they were.
C9_DiscoveryLoadsNothing ==
  [][ret'.op = "discover_plugins"
       => /\ ret'.tag = "Ok"
          /\ (searchPaths = {} /\ staticPlugins = {}) => ret'.val = << >>
          /\ plugins' = plugins]_vars

\* C9 witness: an empty discovery while a plugin loaded by path is live
C9_Witness ==
  /\ ret.op = "discover_plugins" /\ ret.tag = "Ok" /\ ret.val = << >>
  /\ searchPaths = {} /\ staticPlugins = {}
  /\ \E p \in PluginIds : plugins[p].live

\* C10: set_config on a plugin that has already initialized changes nothing of
\* that plugin: enabled, ready, collected data and configuration stay the same.
C10_SetConfigAfterInitialize ==
  [][\A p \in PluginIds :
       (/\ ret'.op = "Plugin_set_config"
        /\ ret'.h = p
        /\ plugins[p].state = "Initialized")
         => plugins'[p] = plugins[p]]_vars

\* C10 witness: an accepted set_config, on an initialized plugin, of a
\* configuration other than the one in effect
C10_Witness ==
  /\ ret.op = "Plugin_set_config" /\ ret.tag = "Ok"
  /\ plugins[ret.h].state = "Initialized"
  /\ plugins[ret.h].data # 0
  /\ ParseConfig(lastArg).cfg # plugins[ret.h].effective

\* what get_json, get_fields and get_last_error return for a plugin in state pl
JsonSeen(p, pl) == get_json_ret(p, DracPluginGetJson(pl)).r
FieldsSeen(p, pl) == {get_fields_ret(p, f).r : f \in DracPluginGetFields(pl)}
LastErrorSeen(p, pl) == get_last_error_ret(p, DracPluginGetLastError(pl)).r.val

C12_QueriesBeforeCollect ==
  [][\A p \in PluginIds :
       /\ (ret'.op = "Plugin_get_json" /\ ret'.h = p /\ plugins[p].data = 0)
            => /\ ret' = Err("Plugin_get_json", p, "NotFound")
               /\ UNCHANGED << cacheVars, pluginVars, aborted >>
       /\ (ret'.op = "Plugin_get_fields" /\ ret'.h = p /\ plugins[p].data = 0)
            => /\ ret'.tag = "Ok"
               /\ DOMAIN ret'.val = {}
               /\ UNCHANGED << cacheVars, pluginVars, aborted >>]_vars

\* get_fields was called on an initialized plugin whose only collection failed
C12_Witness ==
  \E p \in PluginIds :
    /\ ret.op = "Plugin_get_fields"
    /\ ret.h = p
    /\ plugins[p].state = "Initialized"
    /\ plugins[p].lastError # 0
    /\ plugins[p].data = 0

\* the Option<String> holding diagnostic number d (0: no diagnostic was set)
DiagOption(d) == IF d = 0 THEN None ELSE Some(DiagText(d))

\* C13: after any sequence of initialize and collect_data calls get_last_error
\* returns None if no call set a diagnostic and otherwise the diagnostic of the
\* latest failing call that set one (a later success does not clear it, a later
\* failure overwrites it), and get_last_error itself changes neither
C13_LastErrorIsLatestDiagnostic ==
  [][\A p \in PluginIds :
       /\ plugins'[p].live => LastErrorSeen(p, plugins'[p]) = DiagOption(diagSet'[p])
       /\ (ret'.op = "Plugin_get_last_error" /\ ret'.h = p)
            => /\ ret'.val = DiagOption(diagSet[p])
               /\ plugins' = plugins
               /\ diagSet' = diagSet]_vars

\* get_last_error returned the second diagnostic after a first one was set, the
\* plugin initialized and a collection succeeded
C13_Witness ==
  \E p \in PluginIds :
    /\ ret.op = "Plugin_get_last_error"
    /\ ret.h = p
    /\ ret.val = Some(DiagText(2))
    /\ plugins[p].data # 0

\* the release operations of the heap results a native call can hand over
FreeOperations ==
  {"DracFreeString", "DracFreePluginFieldList", "DracFreePluginInfoList"}

\* occurrences of x in the sequence q
Count(x, q) == Cardinality({i \in DOMAIN q : q[i] = x})

\* C14: every heap result a native call handed to the last operation (a string,
\* a list with a non-null items pointer even when its count is 0) was released
\* through its matching free operation exactly once before the operation
\* returned, and nothing was released that was not handed over
C14_HandedOverReleasedOnce ==
  \A f \in FreeOperations : Count(f, nativeCalls) = Count(f, handedOver)

\* operations that make a Plugin, that use one, and that end a handle's life
LoadOps == {"Plugin_new", "Plugin_from_path"}
DropOps == {"CacheManager_drop", "Plugin_drop"}
ReleaseCalls == {"DracDestroyCacheManager", "DracUnloadPlugin"}

EntriesOf(list) ==
  IF is_null(list.items)
  THEN << >>
  ELSE SubSeq(CStr_from_ptr(list.items), 1, list.count)

\* the String of a non-null key, and of a value (empty for a null one)
KeyString(e) == to_string_lossy(CStr_from_ptr(e.key))
ValueString(e) ==
  IF is_null(e.value) THEN << >> ELSE to_string_lossy(CStr_from_ptr(e.value))

\* C16: for every native field list of n entries get_fields returns Ok with a map
\* whose keys are exactly the Strings of the non-null keys of the list, each
\* mapped to the value String (empty for a null value) of the last entry with
\* that key; no null key makes it fail and the map has at most n entries
C16_FieldsSkipNullKeys ==
  ret.op = "Plugin_get_fields"
    => LET e == EntriesOf(pluginFields)
           keyed == {i \in DOMAIN e : ~is_null(e[i].key)}
       IN  /\ ret.tag = "Ok"
           /\ DOMAIN ret.val = {KeyString(e[i]) : i \in keyed}
           /\ \A i \in keyed :
                (\A j \in keyed : j > i => KeyString(e[j]) # KeyString(e[i]))
                  => ret.val[KeyString(e[i])] = ValueString(e[i])
           /\ Cardinality(DOMAIN ret.val) <= Len(e)

\* get_fields returned one entry for a list of three: a null key, then a key
\* with a value, then the same key with a null value
C16_Witness ==
  /\ ret.op = "Plugin_get_fields"
  /\ pluginFields.count = 3
  /\ LET e == EntriesOf(pluginFields)
     IN  /\ is_null(e[1].key)
         /\ e[2] = [key |-> Some(<< 97 >>), value |-> Some(<< 97 >>)]
         /\ e[3] = [key |-> Some(<< 97 >>), value |-> None]
  /\ DOMAIN ret.val = {<< 97 >>}
  /\ ret.val[<< 97 >>] = << >>

\* the 18 error kinds: every ErrorCode but the success sentinel
ErrorKinds == {ErrorCode[i] : i \in DOMAIN ErrorCode} \ {"Success"}

\* C17: an operation that returns Err(e) returns one of the 18 error kinds,
\* never ErrorCode::Success, also when a string-valued getter is handed a null
\* pointer together with the success code
C17_ErrIsAnErrorKind ==
  ret.tag = "Err" => ret.val \in ErrorKinds

====
